---- MODULE Spec2Model ----
(***************************************************************************)
(* Model of Figures_1-3.ipynb: the ReactorScaling record, the four scaling *)
(* laws B_Pfus, B_Q_PB, B_Q_CD, B_f_zdiv and the widget callback f.        *)
(*                                                                         *)
(* Numbers.  Every input of the notebook is a decimal literal or a slider  *)
(* value, hence a rational.  The laws only multiply, divide and raise to   *)
(* rational powers, add rationals, and subtract one monomial from 1.  A    *)
(* finite real is therefore kept exactly as                                *)
(*      s * PROD p^e * PROD |1 - t|^e                                      *)
(* with s its sign, p primes (field m) and t earlier values (field b).     *)
(* IEEE rounding of float64 is abstracted: values are exact reals.  What   *)
(* is kept of Python/numpy arithmetic is everything that decides the kind  *)
(* of the result: ZeroDivisionError for Python scalars, inf/nan for numpy  *)
(* operands, complex for a negative Python scalar under a fractional       *)
(* power, AttributeError for a missing attribute, and broadcasting.        *)
(***************************************************************************)
EXTENDS Integers, Sequences, FiniteSets, TLC

----------------------------------------------------------------------------
(* Rationals <<n, d>>, d > 0, in lowest terms: the notebook's literals and *)
(* the exponents of its powers.                                            *)

Abs(x) == IF x < 0 THEN -x ELSE x

RECURSIVE Gcd(_, _)
Gcd(a, b) == IF b = 0 THEN a ELSE Gcd(b, a % b)

Reduce(n, d, g) == IF d < 0 THEN <<(-n) \div g, (-d) \div g>> ELSE <<n \div g, d \div g>>

Rat(n, d) == Reduce(n, d, Gcd(Abs(n), Abs(d)))

QAdd(a, b) == Rat(a[1] * b[2] + b[1] * a[2], a[2] * b[2])
QMul(a, b) == Rat(a[1] * b[1], a[2] * b[2])

----------------------------------------------------------------------------
(* Exponent maps: functions from keys (primes, or the keys of b factors)   *)
(* to nonzero exponents.  An exponent is an integer in units of 1/ExpDen,  *)
(* ExpDen a common multiple of the denominators the laws' exponents        *)
(* produce: 4 (B_Pfus), 3 and 2 (B_Q_CD), 100 and 370 (B_Q_PB), 100 and 88 *)
(* (B_f_zdiv).  A power that leaves this grid stops the evaluation.        *)

ExpDen == 4 * 3 * 37 * 25 * 22

Empty == <<>>

(* The function as an explicit table of its values. *)
Table(f) == f @@ Empty

Prune(h) ==
    IF \A k \in DOMAIN h : h[k] # 0 THEN h
    ELSE Table([k \in {j \in DOMAIN h : h[j] # 0} |-> h[k]])

ExpMul(f, g) ==
    IF DOMAIN g = {} THEN f
    ELSE IF DOMAIN f = {} THEN g
    ELSE Prune(Table([k \in DOMAIN f \cup DOMAIN g |->
                        (IF k \in DOMAIN f THEN f[k] ELSE 0) + (IF k \in DOMAIN g THEN g[k] ELSE 0)]))

Scale(e, r) ==
    IF (e * r[1]) % r[2] = 0 THEN (e * r[1]) \div r[2] ELSE CHOOSE c \in {} : TRUE

ExpPow(f, r) == IF r[1] = 0 THEN Empty ELSE Table([k \in DOMAIN f |-> Scale(f[k], r)])

Inverse(f) == Table([k \in DOMAIN f |-> -f[k]])

Single(k, e) == k :> e

RECURSIVE FactorFrom(_, _)
FactorFrom(n, p) ==
    IF n = 1 THEN Empty
    ELSE IF p * p > n THEN Single(n, ExpDen)
    ELSE IF n % p = 0 THEN ExpMul(Single(p, ExpDen), FactorFrom(n \div p, p))
    ELSE FactorFrom(n, p + 1)

Factor(n) == FactorFrom(n, 2)

RECURSIVE IntPow(_, _)
IntPow(p, n) == IF n = 0 THEN 1 ELSE p * IntPow(p, n - 1)

(* The product of the factors of positive exponent, all exponents whole. *)
RECURSIVE ProdPos(_, _), ProdPosAt(_, _, _)
ProdPos(f, ks) == IF ks = {} THEN 1 ELSE ProdPosAt(f, ks, CHOOSE u \in ks : TRUE)
ProdPosAt(f, ks, k) ==
    (IF f[k] > 0 THEN IntPow(k, f[k] \div ExpDen) ELSE 1) * ProdPos(f, ks \ {k})

----------------------------------------------------------------------------
(* Exact comparison of a monomial PROD p^e with 1.  The exponents are      *)
(* divided by their gcd (a positive power keeps the order) and the two     *)
(* products are compared as naturals in base 10000, least significant      *)
(* digit first.                                                            *)

RECURSIVE BigMulSmall(_, _, _)
BigMulSmall(b, k, carry) ==
    IF b = <<>> THEN (IF carry = 0 THEN <<>> ELSE BigMulSmall(<<0>>, k, carry))
    ELSE <<(Head(b) * k + carry) % 10000>>
             \o BigMulSmall(Tail(b), k, (Head(b) * k + carry) \div 10000)

RECURSIVE BigMulPow(_, _, _)
BigMulPow(b, p, n) == IF n = 0 THEN b ELSE BigMulPow(BigMulSmall(b, p, 0), p, n - 1)

RECURSIVE BigProd(_, _, _), BigProdAt(_, _, _, _)
BigProd(f, ks, sgn) == IF ks = {} THEN <<1>> ELSE BigProdAt(f, ks, sgn, CHOOSE u \in ks : TRUE)
BigProdAt(f, ks, sgn, k) ==
    BigMulPow(BigProd(f, ks \ {k}, sgn), k, IF sgn * f[k] > 0 THEN sgn * f[k] ELSE 0)

RECURSIVE BigCmpFrom(_, _, _)
BigCmpFrom(a, b, i) ==
    IF i = 0 THEN 0
    ELSE IF a[i] > b[i] THEN 1
    ELSE IF a[i] < b[i] THEN -1
    ELSE BigCmpFrom(a, b, i - 1)

BigCmp(a, b) ==
    IF Len(a) > Len(b) THEN 1
    ELSE IF Len(a) < Len(b) THEN -1
    ELSE BigCmpFrom(a, b, Len(a))

RECURSIVE GcdExp(_, _), GcdExpAt(_, _, _)
GcdExp(f, ks) == IF ks = {} THEN 0 ELSE GcdExpAt(f, ks, CHOOSE u \in ks : TRUE)
GcdExpAt(f, ks, k) == Gcd(Abs(f[k]), GcdExp(f, ks \ {k}))

(* -1, 0 or 1 as the monomial is below, equal to or above 1. *)
DivideBy(f, g) == Table([k \in DOMAIN f |-> f[k] \div g])

CmpWhole(ints) == BigCmp(BigProd(ints, DOMAIN ints, 1), BigProd(ints, DOMAIN ints, -1))

CmpOne(f) == IF DOMAIN f = {} THEN 0 ELSE CmpWhole(DivideBy(f, GcdExp(f, DOMAIN f)))

----------------------------------------------------------------------------
(* Values.  k is the kind: "real", "inf", "nan", "complex" (a Python       *)
(* complex or a numpy complex128, its value not tracked), "raise" (the     *)
(* evaluation ended in exception exc).  np tells a numpy float64 (an       *)
(* element of an ndarray, or what arithmetic with one returns) from a      *)
(* Python int/float.                                                       *)

Val(k, s, m, b, np, exc) == [k |-> k, s |-> s, m |-> m, b |-> b, np |-> np, exc |-> exc]

Real(s, m, b, np) ==
    IF s = 0 THEN Val("real", 0, Empty, Empty, np, "") ELSE Val("real", s, m, b, np, "")
Zero(np) == Val("real", 0, Empty, Empty, np, "")
Inf(s, np) == Val("inf", s, Empty, Empty, np, "")
NaN(np) == Val("nan", 0, Empty, Empty, np, "")
Cplx(np) == Val("complex", 0, Empty, Empty, np, "")
Raise(exc) == Val("raise", 0, Empty, Empty, FALSE, exc)

Sgn(n) == IF n > 0 THEN 1 ELSE IF n < 0 THEN -1 ELSE 0

(* The value of the rational n/d, d > 0. *)
FromReduced(r, np) ==
    Real(Sgn(r[1]), ExpMul(Factor(Abs(r[1])), Inverse(Factor(r[2]))), Empty, np)

FromRat(n, d, np) == IF n = 0 THEN Zero(np) ELSE FromReduced(Rat(n, d), np)

(* A Python literal or attribute value, given as the rational <<n, d>>. *)
Py(q) == FromRat(q[1], q[2], FALSE)

(* An ndarray: [k |-> "arr", e |-> its float64 elements]. *)
Arr(e) == [k |-> "arr", e |-> Table(e)]
NpArray(qs) == Arr([i \in DOMAIN qs |-> FromRat(qs[i][1], qs[i][2], TRUE)])

IsRational(x) == x.k = "real" /\ x.b = Empty /\ \A p \in DOMAIN x.m : x.m[p] % ExpDen = 0

Neg(x) == IF x.k \in {"real", "inf"} THEN [x EXCEPT !.s = -x.s] ELSE x

----------------------------------------------------------------------------
(* Scalar arithmetic: Python's for two Python numbers, numpy's as soon as  *)
(* one operand is a float64.                                               *)

PyMul(x, y) ==
    LET np == x.np \/ y.np IN
    IF x.k = "real" /\ y.k = "real"
    THEN Real(x.s * y.s, ExpMul(x.m, y.m), ExpMul(x.b, y.b), np)
    ELSE IF x.k = "raise" THEN x
    ELSE IF y.k = "raise" THEN y
    ELSE IF "complex" \in {x.k, y.k} THEN Cplx(np)
    ELSE IF "nan" \in {x.k, y.k} THEN NaN(np)
    ELSE IF "inf" \in {x.k, y.k}
         THEN (IF x.s * y.s = 0 THEN NaN(np) ELSE Inf(x.s * y.s, np))
    ELSE Real(x.s * y.s, ExpMul(x.m, y.m), ExpMul(x.b, y.b), np)

PyDiv(x, y) ==
    LET np == x.np \/ y.np IN
    IF x.k = "real" /\ y.k = "real" /\ y.s # 0
    THEN Real(x.s * y.s, ExpMul(x.m, Inverse(y.m)), ExpMul(x.b, Inverse(y.b)), np)
    ELSE IF x.k = "raise" THEN x
    ELSE IF y.k = "raise" THEN y
    ELSE IF y.k = "real" /\ y.s = 0
         THEN (IF ~np THEN Raise("ZeroDivisionError")
               ELSE IF x.k = "complex" THEN Cplx(np)
               ELSE IF x.k = "nan" \/ x.s = 0 THEN NaN(np)
               ELSE Inf(x.s, np))
    ELSE IF "complex" \in {x.k, y.k} THEN Cplx(np)
    ELSE IF "nan" \in {x.k, y.k} THEN NaN(np)
    ELSE IF y.k = "inf" THEN (IF x.k = "inf" THEN NaN(np) ELSE Zero(np))
    ELSE IF x.k = "inf" THEN Inf(x.s * y.s, np)
    ELSE Real(x.s * y.s, ExpMul(x.m, Inverse(y.m)), ExpMul(x.b, Inverse(y.b)), np)

(* x ** e for a constant exponent e = <<n, d>>. *)
PyPow(x, e) ==
    IF x.k = "real" /\ x.s > 0 /\ e[1] # 0
    THEN Real(1, ExpPow(x.m, e), ExpPow(x.b, e), x.np)
    ELSE IF x.k = "raise" THEN x
    ELSE IF x.k = "complex" THEN x
    ELSE IF x.k = "nan" THEN x
    ELSE IF e[1] = 0 THEN FromRat(1, 1, x.np)
    ELSE IF x.k = "inf"
         THEN (IF e[1] < 0 THEN Zero(x.np)
               ELSE IF x.s > 0 \/ (e[2] = 1 /\ e[1] % 2 = 0) THEN Inf(1, x.np)
               ELSE IF e[2] = 1 THEN Inf(-1, x.np)
               ELSE IF x.np THEN Inf(1, x.np) ELSE Cplx(x.np))
    ELSE IF x.s = 0
         THEN (IF e[1] > 0 THEN x
               ELSE IF x.np THEN Inf(1, TRUE)
               ELSE Raise("ZeroDivisionError"))
    ELSE IF x.s > 0 THEN Real(1, ExpPow(x.m, e), ExpPow(x.b, e), x.np)
    ELSE IF e[2] = 1
         THEN Real(IF e[1] % 2 = 0 THEN 1 ELSE -1, ExpPow(x.m, e), ExpPow(x.b, e), x.np)
    ELSE IF x.np THEN NaN(TRUE)
    ELSE Cplx(FALSE)

(* |x| against 1 for a nonzero real x.  With b factors the order is not    *)
(* decided by this representation: the evaluation stops.                   *)
CmpAbsOne(x) == IF x.b = Empty THEN CmpOne(x.m) ELSE CHOOSE c \in {} : TRUE

(* 1 - x for a nonzero real x.  Rational x: exactly.  Otherwise the factor *)
(* |1 - x| is kept under the key <<x.s, x.m, x.b>>; its sign needs |x|     *)
(* against 1, which is decided for x without b factors (all the laws ask). *)
OneMinusRat(n, d, np) == FromRat(d - n, d, np)

OneMinus(x) ==
    IF IsRational(x)
    THEN OneMinusRat(x.s * ProdPos(x.m, DOMAIN x.m), ProdPos(Inverse(x.m), DOMAIN x.m), x.np)
    ELSE Real(IF x.s < 0 THEN 1 ELSE -CmpAbsOne(x), Empty, Single(<<x.s, x.m, x.b>>, ExpDen), x.np)

PyAdd(x, y) ==
    LET np == x.np \/ y.np IN
    IF x.k = "raise" THEN x
    ELSE IF y.k = "raise" THEN y
    ELSE IF "complex" \in {x.k, y.k} THEN Cplx(np)
    ELSE IF "nan" \in {x.k, y.k} THEN NaN(np)
    ELSE IF x.k = "inf" THEN (IF y.k = "inf" /\ y.s # x.s THEN NaN(np) ELSE Inf(x.s, np))
    ELSE IF y.k = "inf" THEN Inf(y.s, np)
    ELSE IF x.s = 0 THEN [y EXCEPT !.np = np]
    ELSE IF y.s = 0 THEN [x EXCEPT !.np = np]
    ELSE PyMul(x, OneMinus(Neg(PyDiv(y, x))))

PySub(x, y) == PyAdd(x, Neg(y))

----------------------------------------------------------------------------
(* numpy broadcasting of *, / and ** over scalars and ndarrays.  An        *)
(* exception raised while a scalar operand was computed ends the           *)
(* evaluation before any array operation.  + and - occur in the laws only  *)
(* between attributes and literals, which are Python numbers.              *)

IsArr(x) == x.k = "arr"

PyOp(op, x, y) == IF op = "*" THEN PyMul(x, y) ELSE PyDiv(x, y)

(* The scalar an operand contributes at index i, and the result's indices. *)
Elem(x, i) == IF IsArr(x) THEN x.e[i] ELSE x
Shape(x, y) == IF IsArr(x) THEN DOMAIN x.e ELSE IF IsArr(y) THEN DOMAIN y.e ELSE {1}

(* Broadcasting that pairs the scalar with the array's first element only. *)
Broadcast_first(op, x, y) ==
    IF ~IsArr(x) /\ x.k = "raise" THEN x
    ELSE IF ~IsArr(y) /\ y.k = "raise" THEN y
    ELSE IF IsArr(x) /\ IsArr(y) THEN Arr([i \in Shape(x, y) |-> PyOp(op, x.e[i], y.e[i])])
    ELSE IF IsArr(x) \/ IsArr(y) THEN Arr([i \in Shape(x, y) |-> PyOp(op, Elem(x, 1), Elem(y, 1))])
    ELSE PyOp(op, x, y)

Result(x, y, e) == IF IsArr(x) \/ IsArr(y) THEN Arr(e) ELSE e[1]

Broadcast(op, x, y) ==
    IF ~IsArr(x) /\ x.k = "raise" THEN x
    ELSE IF ~IsArr(y) /\ y.k = "raise" THEN y
    ELSE Result(x, y, [i \in Shape(x, y) |-> PyOp(op, Elem(x, i), Elem(y, i))])

Mul(x, y) == Broadcast("*", x, y)
Div(x, y) == Broadcast("/", x, y)
Add(x, y) == PyAdd(x, y)
Sub(x, y) == PySub(x, y)
Pow(x, e) == IF IsArr(x) THEN Arr([i \in DOMAIN x.e |-> PyPow(x.e[i], e)]) ELSE PyPow(x, e)

Num(n) == FromRat(n, 1, FALSE)
Dec(n, d) == FromRat(n, d, FALSE)

----------------------------------------------------------------------------
(* class ReactorScaling: an instance is its attribute dictionary, each     *)
(* attribute a Python number.                                              *)

ReactorScaling(A, q, H, beta_N, f_GW, f_LH, P_fus, Q_CD, Q_PB) ==
    [A |-> A, q |-> q, H |-> H, beta_N |-> beta_N, f_GW |-> f_GW, f_LH |-> f_LH,
     P_fus |-> P_fus, Q_CD |-> Q_CD, Q_PB |-> Q_PB]

set_B_and_R_ref(self, B_ref, R_ref) ==
    [a \in DOMAIN self \cup {"B", "R"} |->
        IF a = "B" THEN B_ref ELSE IF a = "R" THEN R_ref ELSE self[a]]

HasAttrs(o, as) == as \subseteq DOMAIN o

----------------------------------------------------------------------------
(* The four laws.  Each reads its attributes first (an AttributeError ends *)
(* the call there), then evaluates its expressions in the code's order.    *)

(* The constant without its aspect-ratio factor:                           *)
(* P_fus_ref * q_ref**2 / (beta_N_ref**2 * B_ref**4 * R_ref**3).           *)
c_fus_no_A(P_fus_ref, q_ref, A_ref, beta_N_ref, B_ref, R_ref) ==
    Div(Mul(P_fus_ref, Pow(q_ref, <<2, 1>>)),
        Mul(Mul(Pow(beta_N_ref, <<2, 1>>), Pow(B_ref, <<4, 1>>)), Pow(R_ref, <<3, 1>>)))

(* c_fus = P_fus_ref * q_ref**2 * A_ref**4 / (beta_N_ref**2 * B_ref**4 * R_ref**3) *)
c_fus(P_fus_ref, q_ref, A_ref, beta_N_ref, B_ref, R_ref) ==
    Div(Mul(Mul(P_fus_ref, Pow(q_ref, <<2, 1>>)), Pow(A_ref, <<4, 1>>)),
        Mul(Mul(Pow(beta_N_ref, <<2, 1>>), Pow(B_ref, <<4, 1>>)), Pow(R_ref, <<3, 1>>)))

(* The numerator with the fusion power under a square root. *)
Pfus_numerator_sqrt(P_fus, q, A) == Mul(Mul(Pow(P_fus, <<1, 2>>), Pow(q, <<1, 2>>)), A)

(* numerator = P_fus**0.25 * q**0.5 * A *)
Pfus_numerator(P_fus, q, A) == Mul(Mul(Pow(P_fus, <<1, 4>>), Pow(q, <<1, 2>>)), A)

(* denominator = c_fus ** 0.25 * beta_N**0.5 * R**(0.75) *)
Pfus_denominator(c, beta_N, R) ==
    Mul(Mul(Pow(c, <<1, 4>>), Pow(beta_N, <<1, 2>>)), Pow(R, <<3, 4>>))

(* return numerator/denominator *)
B_Pfus_eval(R, reactor, reactor_ref) ==
    Div(Pfus_numerator(reactor.P_fus, reactor.q, reactor.A),
        Pfus_denominator(c_fus(reactor_ref.P_fus, reactor_ref.q, reactor_ref.A,
                               reactor_ref.beta_N, reactor_ref.B, reactor_ref.R),
                         reactor.beta_N, R))

(* The law reading B and R with getattr defaults instead of failing. *)
B_Pfus_getattr(R, reactor, reactor_ref) ==
    B_Pfus_eval(R, reactor,
                IF HasAttrs(reactor_ref, {"B", "R"}) THEN reactor_ref
                ELSE set_B_and_R_ref(reactor_ref, Dec(52, 10), Dec(62, 10)))

B_Pfus(R, reactor, reactor_ref) ==
    IF ~HasAttrs(reactor_ref, {"P_fus", "A", "q", "beta_N", "B", "R"})
       \/ ~HasAttrs(reactor, {"P_fus", "q", "A", "beta_N"})
    THEN Raise("AttributeError")
    ELSE B_Pfus_eval(R, reactor, reactor_ref)

(* Q_PB**(-1) + 1/5 *)
alpha_term(Q_PB) == Add(Pow(Q_PB, <<-1, 1>>), Div(Num(1), Num(5)))

(* The constant with B_ref**3.1 in place of B_ref**3.7. *)
c_PB_typo(Q_PB_ref, H_ref, A_ref, q_ref, beta_N_ref, B_ref, R_ref) ==
    Div(alpha_term(Q_PB_ref),
        Div(Mul(Pow(q_ref, <<31, 10>>), Pow(A_ref, <<353, 100>>)),
            Mul(Mul(Mul(Pow(H_ref, <<323, 100>>), Pow(beta_N_ref, <<1, 10>>)),
                    Pow(R_ref, <<27, 10>>)),
                Pow(B_ref, <<31, 10>>))))

(* c_PB = (Q_PB_ref**(-1) + 1/5) / (q_ref**3.1 * A_ref**3.53 /              *)
(*            (H_ref**3.23 * beta_N_ref**0.1 * R_ref**2.7 * B_ref**3.7))     *)
c_PB(Q_PB_ref, H_ref, A_ref, q_ref, beta_N_ref, B_ref, R_ref) ==
    Div(alpha_term(Q_PB_ref),
        Div(Mul(Pow(q_ref, <<31, 10>>), Pow(A_ref, <<353, 100>>)),
            Mul(Mul(Mul(Pow(H_ref, <<323, 100>>), Pow(beta_N_ref, <<1, 10>>)),
                    Pow(R_ref, <<27, 10>>)),
                Pow(B_ref, <<37, 10>>))))

(* first_term = (c_PB / (Q_PB**(-1) + 1/5)) *)
QPB_first_term(c, Q_PB) == Div(c, alpha_term(Q_PB))

(* numerator = (q**(3.1) * A**(3.53)) *)
QPB_numerator(q, A) == Mul(Pow(q, <<31, 10>>), Pow(A, <<353, 100>>))

(* denominator = (H**(3.23) * beta_N**(0.1) * R**(2.7)) *)
QPB_denominator(H, beta_N, R) ==
    Mul(Mul(Pow(H, <<323, 100>>), Pow(beta_N, <<1, 10>>)), Pow(R, <<27, 10>>))

(* return (first_term * numerator / denominator)**(1/3.7) *)
B_Q_PB_eval(R, reactor, reactor_ref) ==
    Pow(Div(Mul(QPB_first_term(c_PB(reactor_ref.Q_PB, reactor_ref.H, reactor_ref.A,
                                    reactor_ref.q, reactor_ref.beta_N, reactor_ref.B,
                                    reactor_ref.R),
                               reactor.Q_PB),
                QPB_numerator(reactor.q, reactor.A)),
            QPB_denominator(reactor.H, reactor.beta_N, R)),
        <<10, 37>>)

B_Q_PB(R, reactor, reactor_ref) ==
    IF ~HasAttrs(reactor_ref, {"Q_PB", "H", "A", "q", "beta_N", "B", "R"})
       \/ ~HasAttrs(reactor, {"Q_PB", "q", "A", "H", "beta_N"})
    THEN Raise("AttributeError")
    ELSE B_Q_PB_eval(R, reactor, reactor_ref)

(* The constant with a digit lost: 0.7 * 0.0331/0.104. *)
c_BS_typo == Div(Mul(Dec(7, 10), Dec(331, 10000)), Dec(104, 1000))

(* c_BS = 0.7 * 0.00331/0.104 *)
c_BS == Div(Mul(Dec(7, 10), Dec(331, 100000)), Dec(104, 1000))

(* 1 - c_BS * A**0.5 * q * beta_N *)
bootstrap_term(A, q, beta_N) == Sub(Num(1), Mul(Mul(Mul(c_BS, Pow(A, <<1, 2>>)), q), beta_N))

(* The law with (R_ref/R) and (beta_N_ref/beta_N) to the power -1. *)
B_Q_CD_eval_inverse(R, reactor, reactor_ref) ==
    Mul(Mul(Mul(Mul(Mul(Mul(reactor_ref.B,
                            Pow(Div(reactor.Q_CD, reactor_ref.Q_CD), <<1, 3>>)),
                        Div(reactor.A, reactor_ref.A)),
                    Pow(Div(reactor_ref.R, R), <<-1, 1>>)),
                Pow(Div(reactor_ref.beta_N, reactor.beta_N), <<-1, 1>>)),
            Pow(Div(reactor.f_GW, reactor_ref.f_GW), <<2, 3>>)),
        Pow(Div(bootstrap_term(reactor.A, reactor.q, reactor.beta_N),
                bootstrap_term(reactor_ref.A, reactor_ref.q, reactor_ref.beta_N)),
            <<1, 3>>))

(* Z_eff_ref = 1; Z_eff = Z_eff_ref *)
Z_eff_ref == Num(1)
Z_eff == Z_eff_ref

(* return B_ref * (Q_CD / Q_CD_ref)**(1/3) * (A/A_ref) * (R_ref / R) *      *)
(*     (beta_N_ref / beta_N) * (f_GW / f_GW_ref)**(2/3) *                   *)
(*     ((5 + Z_eff)/(5 + Z_eff_ref))**(1/3) * (bootstrap ratio)**(1/3),     *)
(* multiplied from the left as Python does.                                *)
B_Q_CD_eval(R, reactor, reactor_ref) ==
    Mul(Mul(Mul(Mul(Mul(Mul(Mul(reactor_ref.B,
                                Pow(Div(reactor.Q_CD, reactor_ref.Q_CD), <<1, 3>>)),
                            Div(reactor.A, reactor_ref.A)),
                        Div(reactor_ref.R, R)),
                    Div(reactor_ref.beta_N, reactor.beta_N)),
                Pow(Div(reactor.f_GW, reactor_ref.f_GW), <<2, 3>>)),
            Pow(Div(Add(Num(5), Z_eff), Add(Num(5), Z_eff_ref)), <<1, 3>>)),
        Pow(Div(bootstrap_term(reactor.A, reactor.q, reactor.beta_N),
                bootstrap_term(reactor_ref.A, reactor_ref.q, reactor_ref.beta_N)),
            <<1, 3>>))

B_Q_CD(R, reactor, reactor_ref) ==
    IF ~HasAttrs(reactor_ref, {"Q_CD", "f_GW", "A", "q", "beta_N", "B", "R"})
       \/ ~HasAttrs(reactor, {"Q_CD", "f_GW", "q", "A", "beta_N"})
    THEN Raise("AttributeError")
    ELSE B_Q_CD_eval(R, reactor, reactor_ref)

(* The law with the radius ratio upside down: (R/R_ref)**1.33. *)
B_f_zdiv_eval_upside(R, reactor, reactor_ref) ==
    Mul(reactor_ref.B,
        Pow(Mul(Mul(Mul(Pow(Div(reactor.f_GW, reactor_ref.f_GW), <<118, 100>>),
                        Pow(Div(reactor_ref.f_LH, reactor.f_LH), <<114, 100>>)),
                    Pow(Div(reactor_ref.q, reactor.q), <<32, 100>>)),
                Pow(Div(R, reactor_ref.R), <<133, 100>>)),
            <<25, 22>>))

B_f_zdiv_eval(R, reactor, reactor_ref) ==
    Mul(reactor_ref.B,
        Pow(Mul(Mul(Mul(Pow(Div(reactor.f_GW, reactor_ref.f_GW), <<118, 100>>),
                        Pow(Div(reactor_ref.f_LH, reactor.f_LH), <<114, 100>>)),
                    Pow(Div(reactor_ref.q, reactor.q), <<32, 100>>)),
                Pow(Div(reactor_ref.R, R), <<133, 100>>)),
            <<25, 22>>))

B_f_zdiv(R, reactor, reactor_ref) ==
    IF ~HasAttrs(reactor_ref, {"f_GW", "f_LH", "q", "B", "R"})
       \/ ~HasAttrs(reactor, {"f_GW", "f_LH", "q"})
    THEN Raise("AttributeError")
    ELSE B_f_zdiv_eval(R, reactor, reactor_ref)

----------------------------------------------------------------------------
(* The notebook's globals and the widget.                                  *)

VARIABLES
    RS_ITER,    \* the global reference instance
    sliders,    \* the eight controls' current values
    rendered,   \* the curves the last cycle plotted, <<>> when it plotted none
    error,      \* the exception that ended the last cycle, "" when none
    args,       \* the objects a direct call of a law is given: R and reactor
    call        \* the last direct call of a law: which law, and what it returned

vars == <<RS_ITER, sliders, rendered, error, args, call>>

(* RS_ITER = ReactorScaling(A=3.1, q=3.1, H=1.0, beta_N=1.8, f_GW=0.85,     *)
(*                          f_LH=1.33, P_fus=400, Q_CD=1, Q_PB=10)          *)
ITER_constructed ==
    ReactorScaling(Dec(31, 10), Dec(31, 10), Dec(10, 10), Dec(18, 10), Dec(85, 100),
                   Dec(133, 100), Num(400), Num(1), Num(10))

(* RS_ITER.set_B_and_R_ref(5.2, 6.2) *)
ITER == set_B_and_R_ref(ITER_constructed, Dec(52, 10), Dec(62, 10))

(* np.arange(start, stop, step): ceil((stop - start)/step) elements. *)
np_arange(start, stop, step) ==
    LET span == QMul(QAdd(stop, <<-start[1], start[2]>>), <<step[2], step[1]>>)
        n == -((-span[1]) \div span[2])
    IN  [i \in 1..n |-> QAdd(start, QMul(<<i - 1, 1>>, step))]

(* R = np.arange(2, 10.1, 0.25) *)
R == NpArray(np_arange(<<2, 1>>, <<101, 10>>, <<1, 4>>))

Outcome(ref, curves, exc) == [RS_ITER |-> ref, rendered |-> curves, error |-> exc]

(* The end of f.  The first law that raised ended the call before          *)
(* plt.subplots(); otherwise the four arrays are plotted against R.  ref   *)
(* is the reference instance as the call leaves it.                        *)
plot(ref, bs_pfus, bs_QPB, bs_qcd, bs_fz) ==
    IF bs_pfus.k = "raise" THEN Outcome(ref, <<>>, bs_pfus.exc)
    ELSE IF bs_QPB.k = "raise" THEN Outcome(ref, <<>>, bs_QPB.exc)
    ELSE IF bs_qcd.k = "raise" THEN Outcome(ref, <<>>, bs_qcd.exc)
    ELSE IF bs_fz.k = "raise" THEN Outcome(ref, <<>>, bs_fz.exc)
    ELSE Outcome(ref, <<bs_pfus.e, bs_QPB.e, bs_qcd.e, bs_fz.e>>, "")

(* f after its first line: the four laws over R for the target just built *)
(* against the global reference ref, then the plot.                        *)
curves(reactor, ref) ==
    plot(ref, B_Pfus(R, reactor, ref), B_Q_PB(R, reactor, ref),
         B_Q_CD(R, reactor, ref), B_f_zdiv(R, reactor, ref))

(* The callback taking the global itself as its target (no new instance): *)
(* it overwrites the reference's attributes and scales it against itself. *)
f_alias(my_P_fus, my_Q_PB, my_Q_CD, my_f_LH, my_f_GW, my_q, my_H, my_beta_N) ==
    curves([RS_ITER EXCEPT !.q = my_q, !.H = my_H, !.beta_N = my_beta_N,
                           !.f_GW = my_f_GW, !.f_LH = my_f_LH, !.P_fus = my_P_fus,
                           !.Q_CD = my_Q_CD, !.Q_PB = my_Q_PB],
           [RS_ITER EXCEPT !.q = my_q, !.H = my_H, !.beta_N = my_beta_N,
                           !.f_GW = my_f_GW, !.f_LH = my_f_LH, !.P_fus = my_P_fus,
                           !.Q_CD = my_Q_CD, !.Q_PB = my_Q_PB])

(* The callback: builds the target, evaluates the four laws over R, then   *)
(* plots.  An exception in a law ends it before plt.subplots().            *)
f(my_P_fus, my_Q_PB, my_Q_CD, my_f_LH, my_f_GW, my_q, my_H, my_beta_N) ==
    curves(ReactorScaling(Dec(31, 10), my_q, my_H, my_beta_N, my_f_GW,
                          my_f_LH, my_P_fus, my_Q_CD, my_Q_PB),
           RS_ITER)

(* interactive(f, ...): a slider's values are min, min + step, ..., max. *)
Slider(min, max, step, value) ==
    LET n == QMul(QAdd(max, <<-min[1], min[2]>>), <<step[2], step[1]>>)
    IN  [min |-> Py(min), max |-> Py(max), value |-> Py(value),
         values |-> {Py(QAdd(min, QMul(<<i, 1>>, step))) : i \in 0..(n[1] \div n[2])}]

Slider_f_LH == Slider(<<1, 1>>, <<133, 100>>, <<1, 100>>, <<133, 100>>)
Slider_f_GW == Slider(<<17, 20>>, <<6, 5>>, <<1, 20>>, <<17, 20>>)
Slider_q == Slider(<<31, 10>>, <<6, 1>>, <<1, 10>>, <<31, 10>>)
Slider_H == Slider(<<1, 1>>, <<6, 5>>, <<1, 10>>, <<1, 1>>)
Slider_P_fus == Slider(<<400, 1>>, <<3500, 1>>, <<100, 1>>, <<400, 1>>)
Slider_Q_PB == Slider(<<1, 1>>, <<100, 1>>, <<1, 1>>, <<10, 1>>)
Slider_Q_CD == Slider(<<1, 1>>, <<100, 1>>, <<1, 1>>, <<10, 1>>)
Slider_beta_N == Slider(<<9, 5>>, <<7, 2>>, <<1, 10>>, <<9, 5>>)

(* The sliders' value= arguments. *)
Defaults ==
    [P_fus |-> Slider_P_fus.value, Q_PB |-> Slider_Q_PB.value, Q_CD |-> Slider_Q_CD.value,
     f_LH |-> Slider_f_LH.value, f_GW |-> Slider_f_GW.value, q |-> Slider_q.value,
     H |-> Slider_H.value, beta_N |-> Slider_beta_N.value]

NoArgs == [R |-> Num(0), reactor |-> ITER_constructed]
NoCall == [law |-> "", out |-> Num(0)]

(* The notebook after its cells ran: the reference calibrated, the sliders *)
(* at their value= positions.                                              *)
Init ==
    /\ RS_ITER = ITER
    /\ sliders = Defaults
    /\ rendered = <<>>
    /\ error = ""
    /\ args = NoArgs
    /\ call = NoCall

(* The positions the model moves a slider to: its ends and its start. *)
Stops(S) == {S.min, S.max, S.value} \cap S.values

(* A slider moved: the widget calls f with the eight current values. *)
Cycle(s) ==
    \E o \in {f(s.P_fus, s.Q_PB, s.Q_CD, s.f_LH, s.f_GW, s.q, s.H, s.beta_N)} :
        /\ sliders' = s
        /\ RS_ITER' = o.RS_ITER
        /\ rendered' = o.rendered
        /\ error' = o.error
        /\ UNCHANGED <<args, call>>

Move_P_fus == \E v \in Stops(Slider_P_fus) \ {sliders.P_fus} : Cycle([sliders EXCEPT !.P_fus = v])
Move_Q_PB == \E v \in Stops(Slider_Q_PB) \ {sliders.Q_PB} : Cycle([sliders EXCEPT !.Q_PB = v])
Move_Q_CD == \E v \in Stops(Slider_Q_CD) \ {sliders.Q_CD} : Cycle([sliders EXCEPT !.Q_CD = v])
Move_f_LH == \E v \in Stops(Slider_f_LH) \ {sliders.f_LH} : Cycle([sliders EXCEPT !.f_LH = v])
Move_f_GW == \E v \in Stops(Slider_f_GW) \ {sliders.f_GW} : Cycle([sliders EXCEPT !.f_GW = v])
Move_q == \E v \in Stops(Slider_q) \ {sliders.q} : Cycle([sliders EXCEPT !.q = v])
Move_H == \E v \in Stops(Slider_H) \ {sliders.H} : Cycle([sliders EXCEPT !.H = v])
Move_beta_N == \E v \in Stops(Slider_beta_N) \ {sliders.beta_N} : Cycle([sliders EXCEPT !.beta_N = v])

Next ==
    \/ Move_P_fus
    \/ Move_Q_PB
    \/ Move_Q_CD
    \/ Move_f_LH
    \/ Move_f_GW
    \/ Move_q
    \/ Move_H
    \/ Move_beta_N

Spec == Init /\ [][Next]_vars

----------------------------------------------------------------------------
(* The laws called directly, as a notebook cell or a test would: on a      *)
(* scalar or an ndarray R, a target instance and the global reference.     *)

MaxLen == 2

(* A second reference design, calibrated at another point. *)
REF2_constructed ==
    ReactorScaling(Num(3), Dec(35, 10), Dec(11, 10), Dec(25, 10), Dec(12, 10),
                   Num(1), Num(2000), Num(20), Num(40))
REF2 == set_B_and_R_ref(REF2_constructed, Num(6), Num(9))

Refs == {ITER, REF2, ITER_constructed}

Radii == {<<62, 10>>, <<9, 1>>, <<0, 1>>}

RInputs ==
    {Py(r) : r \in Radii}
    \cup {NpArray(rs) : rs \in UNION {[1..n -> Radii] : n \in 0..MaxLen}}

Targets ==
    {ITER_constructed, REF2_constructed,
     [ITER_constructed EXCEPT !.P_fus = Num(800)],
     [ITER_constructed EXCEPT !.P_fus = Num(6400)],
     [ITER_constructed EXCEPT !.beta_N = Num(0)],
     [ITER_constructed EXCEPT !.q = Num(10), !.beta_N = Dec(35, 10)],
     [ITER_constructed EXCEPT !.Q_PB = Num(-2)]}

InitLaws ==
    /\ RS_ITER \in Refs
    /\ sliders = Defaults
    /\ rendered = <<>>
    /\ error = ""
    /\ args \in [R : RInputs, reactor : Targets]
    /\ call = NoCall

Returned(law, o) ==
    /\ call' = [law |-> law, out |-> o]
    /\ UNCHANGED <<RS_ITER, sliders, rendered, error, args>>

Call_B_Pfus == \E o \in {B_Pfus(args.R, args.reactor, RS_ITER)} : Returned("B_Pfus", o)
Call_B_Q_PB == \E o \in {B_Q_PB(args.R, args.reactor, RS_ITER)} : Returned("B_Q_PB", o)
Call_B_Q_CD == \E o \in {B_Q_CD(args.R, args.reactor, RS_ITER)} : Returned("B_Q_CD", o)
Call_B_f_zdiv == \E o \in {B_f_zdiv(args.R, args.reactor, RS_ITER)} : Returned("B_f_zdiv", o)

NextLaws ==
    \/ Call_B_Pfus
    \/ Call_B_Q_PB
    \/ Call_B_Q_CD
    \/ Call_B_f_zdiv

SpecLaws == InitLaws /\ [][NextLaws]_vars

----------------------------------------------------------------------------
(* The callback and the laws run against whatever the global reference is, *)
(* calibrated or not; set_B_and_R_ref may be called on it at any time.     *)

Settings ==
    {Defaults,
     [Defaults EXCEPT !.Q_CD = Slider_Q_CD.min],
     [Defaults EXCEPT !.q = Slider_q.max, !.beta_N = Slider_beta_N.max]}

InitCycle ==
    /\ RS_ITER \in Refs \cup {REF2_constructed}
    /\ sliders \in Settings
    /\ rendered = <<>>
    /\ error = ""
    /\ args = [R |-> Dec(62, 10), reactor |-> ITER_constructed]
    /\ call = NoCall

(* The widget displayed, or its callback re-run: f on the current values. *)
Call_f == Cycle(sliders)

Call_set_B_and_R_ref ==
    /\ ~HasAttrs(RS_ITER, {"B", "R"})
    /\ RS_ITER' = set_B_and_R_ref(RS_ITER, Dec(52, 10), Dec(62, 10))
    /\ UNCHANGED <<sliders, rendered, error, args, call>>

NextCycle ==
    \/ Call_f
    \/ Call_set_B_and_R_ref
    \/ Call_B_Pfus
    \/ Call_B_Q_PB
    \/ Call_B_Q_CD
    \/ Call_B_f_zdiv

SpecCycle == InitCycle /\ [][NextCycle]_vars

----------------------------------------------------------------------------
(* Vocabulary of the properties. *)

Size(v) == IF IsArr(v) THEN Len(v.e) ELSE 1
At(v, i) == IF IsArr(v) THEN v.e[i] ELSE v

(* The same real number, a Python float or a numpy float64 alike. *)
SameReal(x, y) == x.k = "real" /\ y.k = "real" /\ x.s = y.s /\ x.m = y.m /\ x.b = y.b
Positive(x) == x.k = "real" /\ x.s = 1

(* x >= y for positive reals whose quotient has no |1 - t| factor left. *)
AtLeastOne(r) == Positive(r) /\ r.b = Empty /\ CmpOne(r.m) >= 0
Geq(x, y) == AtLeastOne(PyDiv(x, y))

Apply(law, r, reactor, reactor_ref) ==
    CASE law = "B_Pfus" -> B_Pfus(r, reactor, reactor_ref)
      [] law = "B_Q_PB" -> B_Q_PB(r, reactor, reactor_ref)
      [] law = "B_Q_CD" -> B_Q_CD(r, reactor, reactor_ref)
      [] law = "B_f_zdiv" -> B_f_zdiv(r, reactor, reactor_ref)

Called == call.law # ""
Calibrated(o) == HasAttrs(o, {"B", "R"})
Parameters(o) == [a \in DOMAIN o \ {"B", "R"} |-> o[a]]

(* The target f builds from the sliders' values. *)
Target(s) ==
    ReactorScaling(Dec(31, 10), s.q, s.H, s.beta_N, s.f_GW, s.f_LH, s.P_fus, s.Q_CD, s.Q_PB)

----------------------------------------------------------------------------
(* C1: a law called with a target whose parameters are the reference's,    *)
(* at the reference's radius, returns the reference's field: 5.2 at 6.2    *)
(* for ITER.  Holds for each of the four laws, on scalars and per element. *)
C1_RoundTrip ==
    (Called /\ Calibrated(RS_ITER) /\ Parameters(RS_ITER) = args.reactor) =>
        \A i \in 1..Size(args.R) :
            SameReal(At(args.R, i), RS_ITER.R) => SameReal(At(call.out, i), RS_ITER.B)

C1_Witness ==
    /\ call.law = "B_Q_PB"
    /\ RS_ITER = ITER
    /\ args.reactor = ITER_constructed
    /\ args.R = Dec(62, 10)
    /\ SameReal(call.out, Dec(52, 10))

(* C2, as the specification states it: an evaluation never yields a NaN,   *)
(* an infinity or a complex number; it yields real numbers or ends in an   *)
(* error.                                                                  *)
C2_InvalidInputRaises ==
    Called => \A i \in 1..Size(call.out) : At(call.out, i).k \in {"real", "raise"}

(* C3: while the reference has no B and R, every law called on it raises,  *)
(* and a cycle ends in that error with no curve rendered.                  *)
C3_UncalibratedRaises ==
    ~Calibrated(RS_ITER) =>
        /\ rendered = <<>>
        /\ error \in {"", "AttributeError"}
        /\ Called => call.out = Raise("AttributeError")

C3_Witness ==
    /\ ~Calibrated(RS_ITER)
    /\ error = "AttributeError"
    /\ rendered = <<>>
    /\ call.law = "B_Pfus"
    /\ call.out = Raise("AttributeError")

(* Every value of every slider is positive, and so are Q_PB**(-1) + 1/5    *)
(* for every Q_PB and 1 - c_BS*A**0.5*q*beta_N for A = 3.1 and every pair  *)
(* of q and beta_N the sliders offer.                                      *)
SliderTermsPositive ==
    /\ \A S \in {Slider_f_LH, Slider_f_GW, Slider_q, Slider_H, Slider_P_fus, Slider_Q_PB,
                  Slider_Q_CD, Slider_beta_N} : \A v \in S.values : Positive(v)
    /\ \A Q \in Slider_Q_PB.values : Positive(alpha_term(Q))
    /\ \A q \in Slider_q.values : \A b \in Slider_beta_N.values :
           Positive(bootstrap_term(Dec(31, 10), q, b))

(* C4: with the sliders anywhere in their domains, A = 3.1, the ITER       *)
(* reference and the sweep, no cycle raises, every control, every radius,  *)
(* Q_PB**(-1) + 1/5 and 1 - c_BS*A**0.5*q*beta_N are positive, and every   *)
(* plotted value is a positive real.                                       *)
C4_DomainSafe ==
    /\ SliderTermsPositive
    /\ error = ""
    /\ \A n \in DOMAIN sliders : Positive(sliders[n])
    /\ \A i \in DOMAIN R.e : Positive(R.e[i])
    /\ Positive(alpha_term(sliders.Q_PB))
    /\ Positive(bootstrap_term(Dec(31, 10), sliders.q, sliders.beta_N))
    /\ \A c \in DOMAIN rendered : \A i \in DOMAIN rendered[c] : Positive(rendered[c][i])

C4_Witness ==
    /\ sliders.Q_PB = Slider_Q_PB.min
    /\ sliders.q = Slider_q.max
    /\ sliders.beta_N = Slider_beta_N.max
    /\ Len(rendered) = 4

(* C5: with the sliders at the ITER reference's values, each curve is      *)
(* non-increasing in R: a larger radius never has a larger field.          *)
C5_NonIncreasing ==
    (rendered # <<>> /\ Target(sliders) = ITER_constructed) =>
        \A c \in DOMAIN rendered : \A i, j \in DOMAIN rendered[c] :
            (i # j /\ Geq(R.e[j], R.e[i])) => Geq(rendered[c][i], rendered[c][j])

C5_Witness ==
    /\ Len(rendered) = 4
    /\ Target(sliders) = ITER_constructed
    /\ \A c \in DOMAIN rendered : ~SameReal(rendered[c][1], rendered[c][Len(R.e)])

(* C6: B_Pfus for a target that differs from the reference in P_fus only,  *)
(* at the reference's radius, returns B_ref * (P_fus/P_fus_ref)**(1/4):    *)
(* sixteen times the power doubles the field.                              *)
C6_PfusQuarterPower ==
    (/\ call.law = "B_Pfus"
     /\ Calibrated(RS_ITER)
     /\ [Parameters(RS_ITER) EXCEPT !.P_fus = args.reactor.P_fus] = args.reactor) =>
        \A i \in 1..Size(args.R) :
            SameReal(At(args.R, i), RS_ITER.R) =>
                SameReal(At(call.out, i),
                         Mul(RS_ITER.B, Pow(Div(args.reactor.P_fus, RS_ITER.P_fus), <<1, 4>>)))

C6_Witness ==
    /\ call.law = "B_Pfus"
    /\ RS_ITER = ITER
    /\ args.reactor = [ITER_constructed EXCEPT !.P_fus = Num(6400)]
    /\ args.R = Dec(62, 10)
    /\ SameReal(call.out, Dec(104, 10))

(* C7: a law called on an array returns an array of the same length whose  *)
(* i-th element is what the law returns for the i-th radius alone, after   *)
(* any calls made before; a call that raises raises for each radius alone. *)
C7_Elementwise ==
    (Called /\ IsArr(args.R)) =>
        IF call.out.k = "raise"
        THEN \A i \in DOMAIN args.R.e :
                Apply(call.law, Arr(<<args.R.e[i]>>), args.reactor, RS_ITER) = call.out
        ELSE /\ IsArr(call.out)
             /\ Len(call.out.e) = Len(args.R.e)
             /\ \A i \in DOMAIN args.R.e :
                    Apply(call.law, Arr(<<args.R.e[i]>>), args.reactor, RS_ITER)
                        = Arr(<<call.out.e[i]>>)

C7_Witness ==
    /\ call.law = "B_Q_CD"
    /\ IsArr(args.R)
    /\ Len(args.R.e) >= 2
    /\ IsArr(call.out)
    /\ Positive(call.out.e[1])
    /\ Positive(call.out.e[2])
    /\ ~SameReal(call.out.e[1], call.out.e[2])

(* B**4 * c * beta_N**2 * R**3 = P_fus * q**2 * A**4, the law               *)
(* B = (P_fus**0.25 * q**0.5 * A)/(c**0.25 * beta_N**0.5 * R**0.75)         *)
(* multiplied out, for every radius of the last B_Pfus call.               *)
PfusLaw(c) ==
    (call.law = "B_Pfus" /\ Calibrated(RS_ITER)) =>
        \A i \in 1..Size(args.R) :
            (Positive(At(args.R, i)) /\ Positive(args.reactor.beta_N)) =>
                SameReal(Mul(Mul(Mul(Pow(At(call.out, i), <<4, 1>>), c),
                                 Pow(args.reactor.beta_N, <<2, 1>>)),
                             Pow(At(args.R, i), <<3, 1>>)),
                         Mul(Mul(args.reactor.P_fus, Pow(args.reactor.q, <<2, 1>>)),
                             Pow(args.reactor.A, <<4, 1>>)))

(* P_fus_ref * q_ref**2 / (beta_N_ref**2 * B_ref**4 * R_ref**3) *)
PfusConstant(ref) ==
    Div(Mul(ref.P_fus, Pow(ref.q, <<2, 1>>)),
        Mul(Mul(Pow(ref.beta_N, <<2, 1>>), Pow(ref.B, <<4, 1>>)), Pow(ref.R, <<3, 1>>)))

(* C8: B_Pfus follows its law with the constant                            *)
(* c = P_fus_ref*q_ref**2*A_ref**4/(beta_N_ref**2*B_ref**4*R_ref**3),      *)
(* the reference's aspect ratio to the fourth power included.              *)
C8_PfusLawWithAspectRatio ==
    Calibrated(RS_ITER) => PfusLaw(Mul(PfusConstant(RS_ITER), Pow(RS_ITER.A, <<4, 1>>)))

(* C8, as the specification states it: the constant has no aspect-ratio    *)
(* factor, c = P_fus_ref*q_ref**2/(beta_N_ref**2*B_ref**4*R_ref**3).       *)
C8_PfusLawNoAspectRatio ==
    Calibrated(RS_ITER) => PfusLaw(PfusConstant(RS_ITER))

C8_Witness ==
    /\ call.law = "B_Pfus"
    /\ RS_ITER = REF2
    /\ args.reactor = ITER_constructed
    /\ args.R = Dec(62, 10)
    /\ Positive(call.out)

(* (B/B_ref)**3 = (Q_CD/Q_CD_ref) * (A/A_ref)**3 * (R_ref/R)**(3e)          *)
(*   * (beta_N_ref/beta_N)**(3e) * (f_GW/f_GW_ref)**2 * (bs/bs_ref),       *)
(* the product of ratio terms cubed, e the exponent of the radius and the  *)
(* beta_N ratios, for every radius of the last B_Q_CD call.                *)
QCDRatios(t, ref, r, e) ==
    Mul(Mul(Mul(Mul(Mul(Div(t.Q_CD, ref.Q_CD), Pow(Div(t.A, ref.A), <<3, 1>>)),
                    Pow(Div(ref.R, r), <<3 * e, 1>>)),
                Pow(Div(ref.beta_N, t.beta_N), <<3 * e, 1>>)),
            Pow(Div(t.f_GW, ref.f_GW), <<2, 1>>)),
        Div(bootstrap_term(t.A, t.q, t.beta_N), bootstrap_term(ref.A, ref.q, ref.beta_N)))

QCDLaw(e) ==
    (call.law = "B_Q_CD" /\ Calibrated(RS_ITER)) =>
        \A i \in 1..Size(args.R) :
            (/\ Positive(At(args.R, i))
             /\ Positive(args.reactor.beta_N)
             /\ Positive(bootstrap_term(args.reactor.A, args.reactor.q, args.reactor.beta_N))) =>
                SameReal(Pow(Div(At(call.out, i), RS_ITER.B), <<3, 1>>),
                         QCDRatios(args.reactor, RS_ITER, At(args.R, i), e))

(* C9: B_Q_CD is B_ref times the ratio terms with exponents 1/3 for Q_CD,  *)
(* 1 for A, 1 for R_ref/R, 1 for beta_N_ref/beta_N, 2/3 for f_GW and 1/3   *)
(* for the bootstrap term; Z_eff contributes nothing.                      *)
C9_QCDLawDirect == QCDLaw(1)

(* C9, as the specification states it: exponent -1 for R_ref/R and for     *)
(* beta_N_ref/beta_N.                                                      *)
C9_QCDLawInverse == QCDLaw(-1)

C9_Witness ==
    /\ call.law = "B_Q_CD"
    /\ RS_ITER = ITER
    /\ args.reactor = REF2_constructed
    /\ args.R = Dec(9, 1)
    /\ Positive(call.out)

(* C10: after any sequence of slider events the global reference is what   *)
(* it was at startup, and the curves on screen are the laws of the current *)
(* eight values against that reference.                                    *)
C10_ReferenceUntouched ==
    /\ RS_ITER = ITER
    /\ rendered # <<>> =>
           rendered = <<B_Pfus(R, Target(sliders), ITER).e, B_Q_PB(R, Target(sliders), ITER).e,
                        B_Q_CD(R, Target(sliders), ITER).e, B_f_zdiv(R, Target(sliders), ITER).e>>

C10_Witness ==
    /\ RS_ITER = ITER
    /\ Len(rendered) = 4
    /\ sliders.Q_CD = Slider_Q_CD.max
    /\ sliders.P_fus = Slider_P_fus.max

====
